---- MODULE Spec2Model ----
(***************************************************************************)
(* The ledger core of go-user-tasks: the two mutating HTTP handlers        *)
(* App.CompleteTask and App.SetReferrer of cmd/server/main.go, each a      *)
(* SERIALIZABLE transaction against the tables of 0001_init.sql.           *)
(*                                                                         *)
(* Every handler runs in its own goroutine, so the handlers of different   *)
(* requests interleave at the granularity of one SQL statement.  The store *)
(* is PostgreSQL: a transaction reads from the snapshot taken by its first *)
(* query overlaid with its own writes, a write takes the row lock until    *)
(* the transaction ends, a write to a row that a transaction committed     *)
(* after the snapshot fails with a serialization error, and any statement  *)
(* (and the commit) may fail on its own: lost connection, deadlock or a    *)
(* serialization failure reported by the store.                            *)
(***************************************************************************)
EXTENDS Integers, Sequences, FiniteSets, TLC

\* ------------------------------------------------------------------ bounds
NumProcs == 2        \* handlers in flight at the same time
MaxCalls == 2        \* requests served in one behaviour

\* --------------------------------------------------------------- constants
RefBonusToReferrer == 50
RefBonusToReferred == 10

NULL == 0            \* users.referrer_id IS NULL; BIGSERIAL ids start at 1

Procs == 1..NumProcs
\* the sample users of the README (alice, bob, carol): BIGSERIAL ids 1, 2, 3
Accounts == {1, 2, 3}
\* ids a request may name: every account and one id that is no account
UserIDs == Accounts \cup {4}

\* the seeded catalog: code -> points
tasks ==
  [c \in {"subscribe_telegram", "subscribe_twitter", "enter_referral_code",
          "complete_profile", "daily_checkin"} |->
     CASE c = "subscribe_telegram" -> 20
       [] c = "subscribe_twitter" -> 20
       [] c = "enter_referral_code" -> 10
       [] c = "complete_profile" -> 15
       [] c = "daily_checkin" -> 5]

\* task codes the requests of the model carry: two of the catalog, one not
TaskInputs == {"daily_checkin", "complete_profile", "no_such_task"}

VARIABLES
  db,      \* committed rows: users, user_tasks, referrals (rows in insert order)
  pc,      \* pc[p]: the statement handler p executes next, "idle" between calls
  req,     \* req[p]: the request handler p serves
  last,    \* the response written last, the request it answers, its number
  tx,      \* tx[p]: the open transaction of p
  calls,   \* requests accepted so far
  leaderboard  \* the response GetLeaderboard wrote last, with its limit parameter

vars == <<db, pc, req, last, tx, calls, leaderboard>>

\* ---------------------------------------------------------------- requests
NoReq == [op |-> "none", id |-> 0, task |-> "", referrer_id |-> 0]
CompleteTaskReq(id, task) ==
  [op |-> "CompleteTask", id |-> id, task |-> task, referrer_id |-> 0]
ReferrerReq(id, r) ==
  [op |-> "SetReferrer", id |-> id, task |-> "", referrer_id |-> r]

\* --------------------------------------------------------------- responses
\* http.Error(w, msg, code) and jsonWrite(w, v, code)
NoResponse == [code |-> 0, status |-> "", awarded |-> 0,
               bonus_referred |-> 0, bonus_to_referrer |-> 0]
HttpError(msg, code) ==
  [code |-> code, status |-> msg, awarded |-> 0,
   bonus_referred |-> 0, bonus_to_referrer |-> 0]
JsonAlreadyCompleted ==
  [code |-> 200, status |-> "already_completed", awarded |-> 0,
   bonus_referred |-> 0, bonus_to_referrer |-> 0]
JsonAwarded(taskPoints) ==
  [code |-> 200, status |-> "ok", awarded |-> taskPoints,
   bonus_referred |-> 0, bonus_to_referrer |-> 0]
JsonReferrerSet ==
  [code |-> 200, status |-> "ok", awarded |-> 0,
   bonus_referred |-> RefBonusToReferred,
   bonus_to_referrer |-> RefBonusToReferrer]

\* ------------------------------------------------------------ transactions
NoTx ==
  [open |-> FALSE, users |-> <<>>, user_tasks |-> <<>>,
   wUsers |-> {}, wTasks |-> <<>>, wReferrals |-> <<>>,
   stale |-> {}, taskPoints |-> 0]

\* the snapshot a transaction takes with its first query
Snapshot(d) ==
  [open |-> TRUE, users |-> d.users, user_tasks |-> d.user_tasks,
   wUsers |-> {}, wTasks |-> <<>>, wReferrals |-> <<>>,
   stale |-> {}, taskPoints |-> 0]

\* the primary key is not enforced: no row ever conflicts
UserTaskKeyNotEnforced(rows, k) == FALSE

\* PRIMARY KEY (user_id, task_code): a row of user_tasks holds the key k
\* (completed_at, which no statement of the handlers reads, is left out)
UserTaskKeyTaken(rows, k) == \E i \in 1..Len(rows) : rows[i] = k

\* rows of users locked by a transaction other than p's
LockedByOther(p, u) == \E q \in Procs \ {p} : u \in tx[q].wUsers
TaskKeyLockedByOther(p, k) ==
  \E q \in Procs \ {p} : UserTaskKeyTaken(tx[q].wTasks, k)
ReferralKeyLockedByOther(p, k) ==
  \E q \in Procs \ {p} :
    \E i \in 1..Len(tx[q].wReferrals) :
      <<tx[q].wReferrals[i].referrer_id, tx[q].wReferrals[i].referred_id>> = k

\* the conflict test left out: the write goes through on a row replaced meanwhile
WriteConflictIgnored(t, u) == FALSE

\* UPDATE of row u by transaction t: a version of the row committed after
\* t's snapshot makes the statement fail (could not serialize access)
WriteConflict(t, u) == u \in t.stale

\* tx.Commit(): the writes of t become the committed rows
Commit(d, t) ==
  [users |-> [u \in Accounts |->
                IF u \in t.wUsers THEN t.users[u] ELSE d.users[u]],
   user_tasks |-> d.user_tasks \o t.wTasks,
   referrals |-> d.referrals \o t.wReferrals]

\* the deferred call commits what was written so far
RollbackKeepsWrites(d, t) ==
  [users |-> [u \in Accounts |->
                IF u \in t.wUsers THEN t.users[u] ELSE d.users[u]],
   user_tasks |-> d.user_tasks \o t.wTasks,
   referrals |-> d.referrals \o t.wReferrals]

\* defer tx.Rollback(): the writes of t are dropped
Rollback(d, t) == d

\* the other open transactions learn which rows p's commit replaced
AfterCommit(p) ==
  [q \in Procs |->
     IF q = p THEN NoTx
     ELSE IF tx[q].open
          THEN [tx[q] EXCEPT !.stale = @ \cup tx[p].wUsers]
          ELSE tx[q]]

\* no leaderboard has been served
NoLeaderboard == [query |-> <<>>, code |-> 0, items |-> <<>>]

\* ------------------------------------------------------------------- Init
Init ==
  /\ db = [users |-> [u \in Accounts |-> [points |-> 0, referrer_id |-> NULL]],
           user_tasks |-> <<>>,
           referrals |-> <<>>]
  /\ pc = [p \in Procs |-> "idle"]
  /\ req = [p \in Procs |-> NoReq]
  /\ last = [seq |-> 0, req |-> NoReq, resp |-> NoResponse]
  /\ tx = [p \in Procs |-> NoTx]
  /\ calls = 0
  /\ leaderboard = NoLeaderboard

\* the handler returns: the response is written, the deferred Rollback runs
Return(p, r) ==
  /\ last' = [seq |-> last.seq + 1, req |-> req[p], resp |-> r]
  /\ pc' = [pc EXCEPT ![p] = "idle"]
  /\ req' = [req EXCEPT ![p] = NoReq]
  /\ db' = Rollback(db, tx[p])
  /\ tx' = [tx EXCEPT ![p] = NoTx]
  /\ UNCHANGED <<calls, leaderboard>>

Goto(p, label) ==
  /\ pc' = [pc EXCEPT ![p] = label]
  /\ UNCHANGED <<db, req, last, calls, leaderboard>>

\* ------------------------------------------------- statements of the store
\* sql.ErrNoRows not told apart: an unknown code reads as a task of 0 points
SelectTaskPointsNoErrNoRows(code) ==
  IF code \in DOMAIN tasks THEN {tasks[code]} ELSE {0}

\* SELECT points FROM tasks WHERE code=$1: the rows found
SelectTaskPoints(code) ==
  IF code \in DOMAIN tasks THEN {tasks[code]} ELSE {}

\* SELECT COUNT(*) FROM user_tasks WHERE user_id=$1 AND task_code=$2
CountUserTasks(t, id, code) ==
  Cardinality({i \in 1..Len(t.user_tasks) : t.user_tasks[i] = <<id, code>>})

\* if cnt == 0: the handler's test for "nothing inserted, completed before"
NotInserted(cnt) == cnt = 0

\* SET points = $1: the balance is overwritten, not incremented
SetPoints(users, id, n) == [users EXCEPT ![id].points = n]

\* UPDATE users SET points = points + $1 WHERE id=$2
AddPoints(users, id, n) == [users EXCEPT ![id].points = @ + n]

\* the UPDATE matches no row: the referrer link is not stored
SetReferrerIDSkipped(users, id, r) == users

\* UPDATE users SET referrer_id=$1 WHERE id=$2
SetReferrerID(users, id, r) == [users EXCEPT ![id].referrer_id = r]

\* a write of users row id inside transaction t
WriteUsers(t, id, users) == [t EXCEPT !.users = users, !.wUsers = @ \cup {id}]

\* ------------------------------------------------------ App.CompleteTask
\* lines 269-293: path id and body are parsed, the transaction is opened
CompleteTask_Begin(p) ==
  /\ pc[p] = "idle"
  /\ calls < MaxCalls
  /\ \E id \in UserIDs, task \in TaskInputs, began \in BOOLEAN :
       /\ calls' = calls + 1
       /\ IF began
          THEN /\ pc' = [pc EXCEPT ![p] = "ct_select_task"]
               /\ req' = [req EXCEPT ![p] = CompleteTaskReq(id, task)]
               /\ last' = last
          ELSE /\ last' = [seq |-> last.seq + 1, req |-> CompleteTaskReq(id, task),
                           resp |-> HttpError("server error", 500)]
               /\ UNCHANGED <<pc, req>>
       /\ UNCHANGED <<db, tx, leaderboard>>

\* lines 295-305: check task exists
CompleteTask_SelectTask(p) ==
  /\ pc[p] = "ct_select_task"
  /\ LET rows == SelectTaskPoints(req[p].task) IN
       IF rows = {}
       THEN Return(p, HttpError("unknown task", 400))
       ELSE /\ tx' = [tx EXCEPT ![p] =
                        [Snapshot(db) EXCEPT !.taskPoints = CHOOSE n \in rows : TRUE]]
            /\ Goto(p, "ct_insert")

\* lines 307-329: INSERT INTO user_tasks ... ON CONFLICT DO NOTHING, then
\* check if actually inserted (award only once).  The count reads p's own
\* view of user_tasks, which no other handler can change.
CompleteTask_Insert(p) ==
  /\ pc[p] = "ct_insert"
  /\ LET id == req[p].id
         task == req[p].task
         k == <<id, task>>
         inserted == [tx[p] EXCEPT !.user_tasks = Append(@, k),
                                   !.wTasks = Append(@, k)]
         Count(t) ==
           IF NotInserted(CountUserTasks(t, id, task))
           THEN Return(p, JsonAlreadyCompleted)
           ELSE /\ tx' = [tx EXCEPT ![p] = t]
                /\ Goto(p, "ct_update")
     IN
       IF id \notin Accounts \/ task \notin DOMAIN tasks
       THEN \* foreign key violation
            Return(p, HttpError("server error", 500))
       ELSE IF UserTaskKeyTaken(tx[p].user_tasks, k)
       THEN \* the row is visible: DO NOTHING
            Count(tx[p])
       ELSE IF UserTaskKeyTaken(db.user_tasks, k)
       THEN \* the conflicting row was committed after the snapshot
            Return(p, HttpError("server error", 500))
       ELSE /\ ~TaskKeyLockedByOther(p, k)
            /\ Count(inserted)

\* lines 331-337: award points
CompleteTask_Update(p) ==
  /\ pc[p] = "ct_update"
  /\ LET id == req[p].id IN
       IF id \notin Accounts
       THEN \* no row matches
            /\ tx' = tx
            /\ Goto(p, "ct_commit")
       ELSE IF WriteConflict(tx[p], id)
       THEN Return(p, HttpError("server error", 500))
       ELSE /\ ~LockedByOther(p, id)
            /\ tx' = [tx EXCEPT ![p] =
                        WriteUsers(@, id, AddPoints(@.users, id, @.taskPoints))]
            /\ Goto(p, "ct_commit")

\* the answer of a handler whose tx.Commit returned an error; ok is the answer
\* it writes when the commit succeeds
CommitErrorIgnored(ok) == ok
CommitFailed(ok) == HttpError("commit failed", 500)

\* lines 339-344: commit, then report the award
CompleteTask_Commit(p) ==
  /\ pc[p] = "ct_commit"
  /\ \/ /\ db' = Commit(db, tx[p])
        /\ tx' = AfterCommit(p)
        /\ last' = [seq |-> last.seq + 1, req |-> req[p], resp |-> JsonAwarded(tx[p].taskPoints)]
        /\ pc' = [pc EXCEPT ![p] = "idle"]
        /\ req' = [req EXCEPT ![p] = NoReq]
        /\ UNCHANGED <<calls, leaderboard>>
     \/ Return(p, CommitFailed(JsonAwarded(tx[p].taskPoints)))

\* -------------------------------------------------------- App.SetReferrer
\* the self-referral test left out
IsSelfReferralUnchecked(id, r) == FALSE

\* if req.ReferrerID == id
IsSelfReferral(id, r) == r = id

\* SELECT referrer_id FROM users WHERE id=$1: the rows found
SelectReferrerID(users, id) ==
  IF id \in DOMAIN users THEN {users[id].referrer_id} ELSE {}

\* the test for a referrer already set left out
HasReferrerUnchecked(curRef) == FALSE

\* if curRef != nil
HasReferrer(curRef) == curRef # NULL

\* the referrer's existence not checked
SelectUserIDUnchecked(users, id) == {id}

\* SELECT id FROM users WHERE id=$1: the rows found
SelectUserID(users, id) == IF id \in DOMAIN users THEN {id} ELSE {}

\* the two ids passed in the wrong order
ReferralRowSwapped(r, id) ==
  [referrer_id |-> id, referred_id |-> r,
   bonus_referrer |-> RefBonusToReferrer, bonus_referred |-> RefBonusToReferred]

\* the row of INSERT INTO referrals (referrer_id, referred_id, bonus_referrer,
\* bonus_referred, created_at) VALUES ($1, $2, $3, $4, now())
ReferralRow(r, id) ==
  [referrer_id |-> r, referred_id |-> id,
   bonus_referrer |-> RefBonusToReferrer, bonus_referred |-> RefBonusToReferred]

\* UNIQUE (referrer_id, referred_id) on the committed rows
ReferralKeyTaken(d, r, id) ==
  \E i \in 1..Len(d.referrals) :
    d.referrals[i].referrer_id = r /\ d.referrals[i].referred_id = id

\* lines 347-375: path id and body are parsed (a referrer_id of 0 is an
\* absent field and is refused as an invalid body before this point), the
\* self-referral is refused, the transaction is opened
SetReferrer_Begin(p) ==
  /\ pc[p] = "idle"
  /\ calls < MaxCalls
  /\ \E id \in UserIDs, r \in UserIDs, began \in BOOLEAN :
       /\ calls' = calls + 1
       /\ IF IsSelfReferral(id, r)
          THEN /\ last' = [seq |-> last.seq + 1, req |-> ReferrerReq(id, r),
                           resp |-> HttpError("cannot refer yourself", 400)]
               /\ UNCHANGED <<pc, req>>
          ELSE IF began
          THEN /\ pc' = [pc EXCEPT ![p] = "sr_select_user"]
               /\ req' = [req EXCEPT ![p] = ReferrerReq(id, r)]
               /\ last' = last
          ELSE /\ last' = [seq |-> last.seq + 1, req |-> ReferrerReq(id, r),
                           resp |-> HttpError("server error", 500)]
               /\ UNCHANGED <<pc, req>>
       /\ UNCHANGED <<db, tx, leaderboard>>

\* lines 377-402: ensure user exists and has no referrer yet, then ensure
\* referrer exists.  Both queries read the snapshot the first one takes.
SetReferrer_SelectUser(p) ==
  /\ pc[p] = "sr_select_user"
  /\ LET t == Snapshot(db)
         rows == SelectReferrerID(t.users, req[p].id) IN
       IF rows = {}
       THEN Return(p, HttpError("user not found", 404))
       ELSE IF HasReferrer(CHOOSE curRef \in rows : TRUE)
       THEN Return(p, HttpError("referrer already set", 409))
       ELSE IF SelectUserID(t.users, req[p].referrer_id) = {}
       THEN Return(p, HttpError("referrer not found", 400))
       ELSE /\ tx' = [tx EXCEPT ![p] = t]
            /\ Goto(p, "sr_update_referrer")

\* lines 404-408: set referrer
SetReferrer_UpdateReferrer(p) ==
  /\ pc[p] = "sr_update_referrer"
  /\ LET id == req[p].id IN
       IF WriteConflict(tx[p], id)
       THEN Return(p, HttpError("server error", 500))
       ELSE /\ ~LockedByOther(p, id)
            /\ tx' = [tx EXCEPT ![p] =
                        WriteUsers(@, id, SetReferrerID(@.users, id, req[p].referrer_id))]
            /\ Goto(p, "sr_award_referred")

\* lines 410-414: award the bonus of the referred user
SetReferrer_AwardReferred(p) ==
  /\ pc[p] = "sr_award_referred"
  /\ LET id == req[p].id IN
       IF WriteConflict(tx[p], id)
       THEN Return(p, HttpError("server error", 500))
       ELSE /\ ~LockedByOther(p, id)
            /\ tx' = [tx EXCEPT ![p] =
                        WriteUsers(@, id, AddPoints(@.users, id, RefBonusToReferred))]
            /\ Goto(p, "sr_award_referrer")

\* lines 415-418: award the bonus of the referrer
SetReferrer_AwardReferrer(p) ==
  /\ pc[p] = "sr_award_referrer"
  /\ LET r == req[p].referrer_id IN
       IF WriteConflict(tx[p], r)
       THEN Return(p, HttpError("server error", 500))
       ELSE /\ ~LockedByOther(p, r)
            /\ tx' = [tx EXCEPT ![p] =
                        WriteUsers(@, r, AddPoints(@.users, r, RefBonusToReferrer))]
            /\ Goto(p, "sr_insert_referral")

\* lines 420-426: INSERT INTO referrals
SetReferrer_InsertReferral(p) ==
  /\ pc[p] = "sr_insert_referral"
  /\ LET r == req[p].referrer_id
         id == req[p].id IN
       IF ReferralKeyTaken(db, r, id)
       THEN \* unique violation
            Return(p, HttpError("server error", 500))
       ELSE /\ ~ReferralKeyLockedByOther(p, <<r, id>>)
            /\ tx' = [tx EXCEPT ![p].wReferrals = Append(@, ReferralRow(r, id))]
            /\ Goto(p, "sr_commit")

\* lines 428-438: commit, then report the bonuses
SetReferrer_Commit(p) ==
  /\ pc[p] = "sr_commit"
  /\ \/ /\ db' = Commit(db, tx[p])
        /\ tx' = AfterCommit(p)
        /\ last' = [seq |-> last.seq + 1, req |-> req[p], resp |-> JsonReferrerSet]
        /\ pc' = [pc EXCEPT ![p] = "idle"]
        /\ req' = [req EXCEPT ![p] = NoReq]
        /\ UNCHANGED <<calls, leaderboard>>
     \/ Return(p, CommitFailed(JsonReferrerSet))

\* ------------------------------------------------------------ the store
\* the statement p is about to execute fails on its own (connection lost,
\* deadlock, serialization failure): the handler answers "server error"
Statements ==
  {"ct_select_task", "ct_insert", "ct_update",
   "sr_select_user", "sr_update_referrer",
   "sr_award_referred", "sr_award_referrer", "sr_insert_referral"}

StatementFails(p) ==
  /\ pc[p] \in Statements
  /\ Return(p, HttpError("server error", 500))

Next ==
  \E p \in Procs :
    \/ CompleteTask_Begin(p)
    \/ CompleteTask_SelectTask(p)
    \/ CompleteTask_Insert(p)
    \/ CompleteTask_Update(p)
    \/ CompleteTask_Commit(p)
    \/ SetReferrer_Begin(p)
    \/ SetReferrer_SelectUser(p)
    \/ SetReferrer_UpdateReferrer(p)
    \/ SetReferrer_AwardReferred(p)
    \/ SetReferrer_AwardReferrer(p)
    \/ SetReferrer_InsertReferral(p)
    \/ SetReferrer_Commit(p)
    \/ StatementFails(p)

Spec == Init /\ [][Next]_vars

\* ===================================================================
\* GET /leaderboard
\* ===================================================================

\* usernames of the sample accounts
username == [u \in Accounts |->
  CASE u = 1 -> "alice"
    [] u = 2 -> "bob"
    [] u = 3 -> "carol"]

\* balances the users table holds when the leaderboard is read
LBPoints == {0, 90, 100}

\* values of the limit query parameter, one character per element;
\* <<>> is the parameter left out
LimitInputs ==
  { <<>>, <<"1">>, <<"2">>, <<"3">>, <<"0">>, <<"-", "2">>, <<"+", "2">>,
    <<"2", "x">>, <<"1", "0", "0">>, <<"1", "0", "1">> }

DigitValue == [c \in {"0", "1", "2", "3", "4", "5", "6", "7", "8", "9"} |->
  CASE c = "0" -> 0 [] c = "1" -> 1 [] c = "2" -> 2 [] c = "3" -> 3
    [] c = "4" -> 4 [] c = "5" -> 5 [] c = "6" -> 6 [] c = "7" -> 7
    [] c = "8" -> 8 [] c = "9" -> 9]

\* the decimal digits of s read left to right onto acc; -1 at a non-digit
RECURSIVE ParseDigits(_, _)
ParseDigits(s, acc) ==
  IF s = <<>> THEN acc
  ELSE IF Head(s) \notin DOMAIN DigitValue THEN -1
  ELSE ParseDigits(Tail(s), acc * 10 + DigitValue[Head(s)])

\* strconv.Atoi: an optional sign, then one digit or more
Atoi(s) ==
  LET signed == s # <<>> /\ Head(s) \in {"+", "-"}
      digits == IF signed THEN Tail(s) ELSE s
      m      == IF digits = <<>> THEN -1 ELSE ParseDigits(digits, 0)
  IN  IF m < 0 THEN [err |-> TRUE, n |-> 0]
      ELSE [err |-> FALSE, n |-> IF signed /\ Head(s) = "-" THEN 0 - m ELSE m]

\* the limit of the query: 10 unless the parameter is a number in 1..100
Limit(v) ==
  IF v # <<>> /\ ~Atoi(v).err /\ Atoi(v).n > 0 /\ Atoi(v).n <= 100
  THEN Atoi(v).n
  ELSE 10

\* ORDER BY points DESC, id ASC: row a sorts before row b
OrderByPointsOnly(a, b) == a.points > b.points
OrderBy(a, b) ==
  \/ a.points > b.points
  \/ a.points = b.points /\ a.id < b.id

\* the rows of users as the scan meets them: a scan promises no order, the
\* rows are met here from the largest id down
RECURSIVE ScanUsers(_, _)
ScanUsers(users, ids) ==
  IF ids = {} THEN <<>>
  ELSE LET u == CHOOSE x \in ids : \A y \in ids : y <= x
       IN  <<[id |-> u, username |-> username[u], points |-> users[u].points]>>
             \o ScanUsers(users, ids \ {u})

\* row r put into the sorted rows: before the first row it sorts before
RECURSIVE SortInsert(_, _)
SortInsert(r, sorted) ==
  IF sorted = <<>> THEN <<r>>
  ELSE IF OrderBy(r, Head(sorted)) THEN <<r>> \o sorted
  ELSE <<Head(sorted)>> \o SortInsert(r, Tail(sorted))

\* the rows sorted, each put into place as the scan delivers it
RECURSIVE Sort(_, _)
Sort(rows, sorted) ==
  IF rows = <<>> THEN sorted ELSE Sort(Tail(rows), SortInsert(Head(rows), sorted))

\* SELECT id, username, points FROM users ORDER BY points DESC, id ASC LIMIT n
SelectLeaderboard(users, n) ==
  LET sorted == Sort(ScanUsers(users, DOMAIN users), <<>>)
  IN  SubSeq(sorted, 1, IF n < Len(sorted) THEN n ELSE Len(sorted))

\* rank++ before each row is appended: the i-th row has rank i
RankFromZero(i) == i - 1
Rank(i) == i

LeaderboardItems(rows) ==
  [i \in 1..Len(rows) |->
     [id |-> rows[i].id, username |-> rows[i].username,
      points |-> rows[i].points, rank |-> Rank(i)]]

GetLeaderboard(v) ==
  /\ \/ leaderboard' = [query |-> v, code |-> 200,
                        items |-> LeaderboardItems(SelectLeaderboard(db.users, Limit(v)))]
     \/ leaderboard' = [query |-> v, code |-> 500, items |-> <<>>]
  /\ UNCHANGED <<db, pc, req, last, tx, calls>>

\* the users table with balances of LBPoints, no request in progress
LBInit ==
  /\ \E pts \in [Accounts -> LBPoints] :
       db = [users |-> [u \in Accounts |-> [points |-> pts[u], referrer_id |-> NULL]],
             user_tasks |-> <<>>,
             referrals |-> <<>>]
  /\ pc = [p \in Procs |-> "idle"]
  /\ req = [p \in Procs |-> NoReq]
  /\ last = [seq |-> 0, req |-> NoReq, resp |-> NoResponse]
  /\ tx = [p \in Procs |-> NoTx]
  /\ calls = 0
  /\ leaderboard = NoLeaderboard

LBNext == \E v \in LimitInputs : GetLeaderboard(v)

LeaderboardSpec == LBInit /\ [][LBNext]_vars


\* ===================================================================
\* Properties
\* ===================================================================
\* the Completion row of (id, task) is among rows
Completed(rows, id, task) == \E i \in 1..Len(rows) : rows[i] = <<id, task>>
\* a handler writes its response in this step
Answered == last'.seq # last.seq
AnsweredOp(op) == Answered /\ last'.req.op = op
\* the response is one of the store's own failures, not a decision of the handler
Transient(r) == r.code = 500
\* the step is taken by a handler that is at label l before it
StepAt(p, l) == pc[p] = l /\ pc'[p] # l
\* the answered call had run no statement past its first query: no handler
\* moved, or the one that moved was at its first query
AnsweredByFirstQuery ==
  \A p \in Procs : pc'[p] # pc[p] => pc[p] \in {"ct_select_task", "sr_select_user"}

\* C1: idempotence of CompleteTask.  Once the Completion row of (u, t) is
\* committed, every further CompleteTask(u, t) that the store does not fail
\* answers already_completed and leaves every balance as it was, so that N
\* sequential calls award t.points once.
C1_RepeatedCompletionAwardsNothing ==
  [][(/\ AnsweredOp("CompleteTask")
      /\ Completed(db.user_tasks, last'.req.id, last'.req.task)
      /\ ~Transient(last'.resp))
     => (last'.resp = JsonAlreadyCompleted /\ db'.users = db.users)]_vars

\* C2: exactly-once award under concurrency.  Whatever the interleaving of
\* the CompleteTask transactions of a pair (u, t), a transaction that commits
\* a point increment for (u, t) is the one that creates the Completion row of
\* (u, t): no increment is committed for a pair whose row already exists.
C2_IncrementOnlyWithNewRow ==
  [][\A p \in Procs :
       (StepAt(p, "ct_commit") /\ db'.users # db.users)
       => (/\ ~Completed(db.user_tasks, req[p].id, req[p].task)
           /\ Completed(db'.user_tasks, req[p].id, req[p].task))]_vars

\* C3 as stated: once a SetReferrer for u has succeeded, every later
\* SetReferrer call for u, with any referrerID, fails with ReferrerAlreadySet
\* and pays no bonus.  A later call is one that arrives, or runs its first
\* query, when u's referrer is committed.
C3_LaterCallsAllReferrerAlreadySet ==
  [][\A id \in Accounts :
       (/\ AnsweredOp("SetReferrer")
        /\ last'.req.id = id
        /\ AnsweredByFirstQuery
        /\ db.users[id].referrer_id # NULL
        /\ ~Transient(last'.resp))
       => (/\ last'.resp = HttpError("referrer already set", 409)
           /\ db' = db)]_vars

\* C3 as amended: a SetReferrer for u succeeds only while u has no referrer,
\* and sets one for good, so at most one call for u ever succeeds; a later
\* call for u pays no bonus and fails with ReferrerAlreadySet when its
\* referrerID differs from u, with SelfReferral when its referrerID is u.
C3_ReferralExclusive ==
  [][\A id \in Accounts :
       /\ (AnsweredOp("SetReferrer") /\ last'.req.id = id /\ last'.resp.status = "ok")
          => (db.users[id].referrer_id = NULL /\ db'.users[id].referrer_id # NULL)
       /\ db.users[id].referrer_id # NULL
          => db'.users[id].referrer_id = db.users[id].referrer_id
       /\ (/\ AnsweredOp("SetReferrer")
           /\ last'.req.id = id
           /\ AnsweredByFirstQuery
           /\ db.users[id].referrer_id # NULL)
          => (/\ db' = db
              /\ ~Transient(last'.resp)
                 => last'.resp = IF last'.req.referrer_id = id
                                 THEN HttpError("cannot refer yourself", 400)
                                 ELSE HttpError("referrer already set", 409))]_vars

\* C3 witness: a call for a user whose referrer is set was refused with
\* ReferrerAlreadySet
C3_Witness ==
  /\ last.req.op = "SetReferrer"
  /\ last.resp = HttpError("referrer already set", 409)
  /\ last.req.id \in Accounts
  /\ db.users[last.req.id].referrer_id # NULL
  /\ Len(db.referrals) = 1

\* C4: two concurrent SetReferrer calls for one user cannot both succeed.  A
\* SetReferrer transaction for u that is still open when another call has
\* committed u's referrer changes nothing: it is refused with
\* ReferrerAlreadySet or ends in a failure of the store (a serialization
\* failure is answered "server error"), so the bonuses are paid once.
C4_ConcurrentSetReferrerOneWinner ==
  [][\A p \in Procs :
       (/\ req[p].op = "SetReferrer"
        /\ pc[p] # "idle" /\ pc'[p] = "idle"
        /\ req[p].id \in Accounts
        /\ db.users[req[p].id].referrer_id # NULL)
       => (/\ db' = db
           /\ last'.resp \in {HttpError("referrer already set", 409),
                              HttpError("server error", 500),
                              HttpError("commit failed", 500)})]_vars

\* C4 witness: the winner has committed and answered while the other
\* transaction for the same user is still open on its older snapshot
C4_Witness ==
  \E p \in Procs :
    /\ req[p].op = "SetReferrer"
    /\ tx[p].open
    /\ req[p].id \in tx[p].stale
    /\ tx[p].users[req[p].id].referrer_id = NULL
    /\ db.users[req[p].id].referrer_id # NULL
    /\ last.req.op = "SetReferrer"
    /\ last.req.id = req[p].id
    /\ last.resp = JsonReferrerSet

\* C5: an aborted unit of work leaves no partial state.  The committed rows
\* change only in the step in which a handler commits and answers ok, never
\* when it answers anything else; a CompleteTask commit stores the Completion
\* row together with the point increment, a SetReferrer commit stores the
\* referrer link, both increments and the Referral row together.
C5_AllOrNothing ==
  [][/\ db' # db => (Answered /\ last'.resp.status = "ok")
     /\ (Answered /\ last'.resp.status # "ok") => db' = db
     /\ (AnsweredOp("CompleteTask") /\ db' # db)
        => (/\ Completed(db'.user_tasks, last'.req.id, last'.req.task)
            /\ db'.users[last'.req.id].points
                 = db.users[last'.req.id].points + tasks[last'.req.task])
     /\ (AnsweredOp("SetReferrer") /\ db' # db)
        => (/\ db'.users[last'.req.id].referrer_id = last'.req.referrer_id
            /\ db'.users[last'.req.id].points > db.users[last'.req.id].points
            /\ db'.users[last'.req.referrer_id].points
                 > db.users[last'.req.referrer_id].points
            /\ Len(db'.referrals) = Len(db.referrals) + 1)]_vars

\* C5 witness: a SetReferrer whose four writes were all issued failed to
\* commit, and none of them is stored
C5_Witness ==
  /\ last.req.op = "SetReferrer"
  /\ last.resp = HttpError("commit failed", 500)
  /\ db.users[last.req.id].referrer_id = NULL
  /\ \A u \in Accounts : db.users[u].points = 0
  /\ db.referrals = <<>>

\* C6: the first CompleteTask(u, t) of an account u and a catalog task t,
\* when the store does not fail, answers ok with awarded = t.points, creates
\* the Completion row (u, t), adds exactly t.points to u's balance and
\* changes nothing else.
C6_FirstCompletionAwards ==
  [][(/\ AnsweredOp("CompleteTask")
      /\ last'.req.id \in Accounts
      /\ last'.req.task \in DOMAIN tasks
      /\ ~Completed(db.user_tasks, last'.req.id, last'.req.task)
      /\ ~Transient(last'.resp))
     => (/\ last'.resp = JsonAwarded(tasks[last'.req.task])
         /\ db'.user_tasks = Append(db.user_tasks, <<last'.req.id, last'.req.task>>)
         /\ db'.users = [db.users EXCEPT ![last'.req.id].points =
                                           @ + tasks[last'.req.task]]
         /\ db'.referrals = db.referrals)]_vars

\* C6 witness: the first completion of a second task by an account that
\* already holds points
C6_Witness ==
  /\ last.req = CompleteTaskReq(1, "daily_checkin")
  /\ last.resp = JsonAwarded(5)
  /\ db.user_tasks = <<(<<1, "complete_profile">>), (<<1, "daily_checkin">>)>>
  /\ db.users[1].points = 20

\* C7: a SetReferrer(u, r) with u # r, both accounts and u without referrer,
\* when the store does not fail, answers the two bonuses (10 and 50), sets
\* u's referrer to r, adds 10 to u and 50 to r, appends the one Referral row
\* (r, u, 50, 10) and changes nothing else; and only such a call succeeds.
C7_SetReferrerEffect ==
  [][/\ (/\ AnsweredOp("SetReferrer")
         /\ last'.req.id # last'.req.referrer_id
         /\ last'.req.id \in Accounts
         /\ last'.req.referrer_id \in Accounts
         /\ db.users[last'.req.id].referrer_id = NULL
         /\ ~Transient(last'.resp))
        => last'.resp.status = "ok"
     /\ (AnsweredOp("SetReferrer") /\ last'.resp.status = "ok")
        => LET u == last'.req.id
               r == last'.req.referrer_id
           IN /\ u # r /\ u \in Accounts /\ r \in Accounts
              /\ db.users[u].referrer_id = NULL
              /\ last'.resp.code = 200
              /\ last'.resp.bonus_referred = 10
              /\ last'.resp.bonus_to_referrer = 50
              /\ db'.users = [db.users EXCEPT ![u].referrer_id = r,
                                              ![u].points = @ + 10,
                                              ![r].points = @ + 50]
              /\ db'.referrals =
                   Append(db.referrals,
                          [referrer_id |-> r, referred_id |-> u,
                           bonus_referrer |-> 50, bonus_referred |-> 10])
              /\ db'.user_tasks = db.user_tasks]_vars

\* C7 witness: SetReferrer(1, 2) has succeeded on fresh accounts
C7_Witness ==
  /\ last.req = ReferrerReq(1, 2)
  /\ last.resp = JsonReferrerSet
  /\ db.users[1] = [points |-> 10, referrer_id |-> 2]
  /\ db.users[2] = [points |-> 50, referrer_id |-> NULL]
  /\ db.users[3] = [points |-> 0, referrer_id |-> NULL]
  /\ Len(db.referrals) = 1

\* C8: SetReferrer(u, u) is refused with SelfReferral in every state, before
\* any transaction is opened, and changes no balance, link or Referral row.
C8_SelfReferralRejected ==
  [][/\ \A p \in Procs :
          ~(req'[p].op = "SetReferrer" /\ req'[p].id = req'[p].referrer_id)
     /\ (AnsweredOp("SetReferrer") /\ last'.req.id = last'.req.referrer_id)
        => (/\ last'.resp = HttpError("cannot refer yourself", 400)
            /\ db' = db)]_vars

\* C8 witness: the self-referral of an account that already has a referrer
\* was refused
C8_Witness ==
  /\ last.req.op = "SetReferrer"
  /\ last.req.id = last.req.referrer_id
  /\ last.req.id \in Accounts
  /\ db.users[last.req.id].referrer_id # NULL
  /\ last.resp = HttpError("cannot refer yourself", 400)

\* C9: CompleteTask with a task code outside the catalog never gets past the
\* catalog lookup, is answered UnknownTask (or the store's own failure) and
\* creates no Completion row and changes no balance.
C9_UnknownTaskNoMutation ==
  [][/\ \A p \in Procs :
          (req'[p].op = "CompleteTask" /\ req'[p].task \notin DOMAIN tasks)
          => pc'[p] = "ct_select_task"
     /\ (AnsweredOp("CompleteTask") /\ last'.req.task \notin DOMAIN tasks)
        => (/\ db' = db
            /\ last'.resp \in {HttpError("unknown task", 400),
                               HttpError("server error", 500)})]_vars

\* C9 witness: a request for a task outside the catalog was refused
C9_Witness ==
  /\ last.req.op = "CompleteTask"
  /\ last.req.task = "no_such_task"
  /\ last.resp = HttpError("unknown task", 400)
  /\ db.user_tasks = <<>>

\* C10: the precondition failures of SetReferrer(u, r), u # r, decided by the
\* first queries of the transaction: UnknownUser when u is no account,
\* ReferrerAlreadySet when u has a referrer, UnknownReferrer when u has none
\* and r is no account.  The three answers differ and none changes a row.
C10_SetReferrerFailures ==
  [][\A p \in Procs :
       StepAt(p, "sr_select_user") =>
         LET u == req[p].id
             r == req[p].referrer_id
             refused(resp) ==
               /\ pc'[p] = "idle"
               /\ db' = db
               /\ last'.req = req[p]
               /\ last'.resp \in {resp, HttpError("server error", 500)}
         IN /\ u \notin Accounts
               => refused(HttpError("user not found", 404))
            /\ (u \in Accounts /\ db.users[u].referrer_id # NULL)
               => refused(HttpError("referrer already set", 409))
            /\ (u \in Accounts /\ db.users[u].referrer_id = NULL /\ r \notin Accounts)
               => refused(HttpError("referrer not found", 400))
            /\ HttpError("user not found", 404) # HttpError("referrer already set", 409)
            /\ HttpError("user not found", 404) # HttpError("referrer not found", 400)
            /\ HttpError("referrer already set", 409) # HttpError("referrer not found", 400)]_vars

\* C10 witness: a call naming a referrer that is no account was refused
\* with UnknownReferrer while the user still has no referrer
C10_Witness ==
  /\ last.req.op = "SetReferrer"
  /\ last.req.id \in Accounts
  /\ last.req.referrer_id \notin Accounts
  /\ db.users[last.req.id].referrer_id = NULL
  /\ last.resp = HttpError("referrer not found", 400)

\* C11: at most one Completion row per (userID, taskCode) in every reachable
\* state, and a Completion row once stored is never updated or deleted: the
\* stored rows stay, in place and unchanged, in every next state.
C11_CompletionRowsUniqueForever ==
  /\ [](\A i, j \in 1..Len(db.user_tasks) :
          i # j => db.user_tasks[i] # db.user_tasks[j])
  /\ [][/\ Len(db'.user_tasks) >= Len(db.user_tasks)
        /\ \A i \in 1..Len(db.user_tasks) : db'.user_tasks[i] = db.user_tasks[i]]_vars

\* C11 witness: CompleteTask has committed twice for one pair (the balance
\* holds two awards) and the pair still has its one row
C11_Witness ==
  /\ Len(db.user_tasks) = 1
  /\ last.req.op = "CompleteTask"
  /\ last.seq = 2
  /\ db.user_tasks[1] = <<last.req.id, last.req.task>>
  /\ db.users[last.req.id].points = 2 * tasks[last.req.task]

\* C12: in every reachable state a referred user appears in at most one
\* Referral row, whoever the referrer is, and Referral rows are never updated
\* or deleted: the stored rows stay, in place and unchanged, in every next
\* state.
C12_OneReferralPerReferred ==
  /\ [](\A i, j \in 1..Len(db.referrals) :
          i # j => db.referrals[i].referred_id # db.referrals[j].referred_id)
  /\ [][/\ Len(db'.referrals) >= Len(db.referrals)
        /\ \A i \in 1..Len(db.referrals) : db'.referrals[i] = db.referrals[i]]_vars

\* C12 witness: a second SetReferrer for a referred user, naming another
\* account as referrer, has been answered and the user still has one row
C12_Witness ==
  /\ Len(db.referrals) = 1
  /\ last.req.op = "SetReferrer"
  /\ last.seq = 2
  /\ last.req.id = db.referrals[1].referred_id
  /\ last.req.referrer_id \in Accounts \ {last.req.id, db.referrals[1].referrer_id}
  /\ ~Transient(last.resp)

\* C13: under every interleaving of CompleteTask and SetReferrer an account's
\* referrer is never the account itself and, once set, is the same in every
\* later state.
C13_ReferrerSetOnceNeverSelf ==
  /\ [](\A u \in Accounts : db.users[u].referrer_id # u)
  /\ [][\A u \in Accounts :
          db.users[u].referrer_id # NULL
          => db'.users[u].referrer_id = db.users[u].referrer_id]_vars

\* C13 witness: an account with a referrer has had its users row rewritten
\* by a committed CompleteTask and the referrer is still there
C13_Witness ==
  /\ last.req.op = "CompleteTask"
  /\ last.resp.status = "ok"
  /\ db.users[last.req.id].referrer_id \in Accounts \ {last.req.id}
  /\ Len(db.referrals) = 1
  /\ db.referrals[1].referred_id = last.req.id

\* C14: every balance is non-negative in every reachable state and never
\* decreases from a state to the next; a balance changes only in the step in
\* which a CompleteTask for that account, or a SetReferrer naming it as
\* referred user or as referrer, answers ok.
C14_PointsMonotonic ==
  /\ [](\A u \in Accounts : db.users[u].points >= 0)
  /\ [][\A u \in Accounts :
          /\ db'.users[u].points >= db.users[u].points
          /\ db'.users[u].points # db.users[u].points
             => /\ Answered
                /\ last'.resp.status = "ok"
                /\ \/ last'.req.op = "CompleteTask" /\ last'.req.id = u
                   \/ last'.req.op = "SetReferrer"
                      /\ u \in {last'.req.id, last'.req.referrer_id}]_vars

\* C14 witness: a SetReferrer and a CompleteTask have both committed and an
\* account holds the sum of a bonus and a task award
C14_Witness ==
  /\ Len(db.referrals) = 1
  /\ Len(db.user_tasks) = 1
  /\ \E u \in Accounts :
       /\ db.user_tasks[1][1] = u
       /\ db.users[u].points > tasks[db.user_tasks[1][2]]

\* what request rq credits to account u when it commits
Credit(rq, u) ==
  IF rq.op = "CompleteTask"
  THEN (IF u = rq.id THEN tasks[rq.task] ELSE 0)
  ELSE (IF u = rq.id THEN 10 ELSE 0) + (IF u = rq.referrer_id THEN 50 ELSE 0)

\* C15: no lost update.  A transaction that commits leaves every balance at
\* the committed balance of the moment plus its own credit, so the awards of
\* the transactions committed before it, also those that raced with it on the
\* same account, are all included; a transaction that ends without commit
\* changes nothing.
C15_NoLostUpdate ==
  [][\A p \in Procs :
       /\ (pc[p] \in {"ct_commit", "sr_commit"} /\ pc'[p] = "idle" /\ db' # db)
          => \A u \in Accounts :
               db'.users[u].points = db.users[u].points + Credit(req[p], u)
       /\ (pc[p] \notin {"idle", "ct_commit", "sr_commit"} /\ pc'[p] = "idle")
          => db' = db]_vars

\* C15 witness: while a transaction that is to credit account u is open, a
\* concurrent one has committed a credit to u
C15_Witness ==
  \E p \in Procs :
    /\ tx[p].open
    /\ \E u \in tx[p].stale :
         /\ Credit(req[p], u) > 0
         /\ db.users[u].points > tx[p].users[u].points

\* the statement handler p is about to execute fails with a serialization
\* conflict: it meets a row that a concurrent transaction committed after
\* p's snapshot
ConflictAt(p) ==
  \/ /\ pc[p] = "ct_insert"
     /\ req[p].id \in Accounts
     /\ ~UserTaskKeyTaken(tx[p].user_tasks, <<req[p].id, req[p].task>>)
     /\ UserTaskKeyTaken(db.user_tasks, <<req[p].id, req[p].task>>)
  \/ /\ pc[p] \in {"ct_update", "sr_update_referrer", "sr_award_referred"}
     /\ req[p].id \in Accounts
     /\ WriteConflict(tx[p], req[p].id)
  \/ /\ pc[p] = "sr_award_referrer"
     /\ WriteConflict(tx[p], req[p].referrer_id)

\* C16: every failure kind reaches the caller as an outcome of its own, and a
\* repeated completion as a success that is neither an error nor a first
\* award.  The answers for UnknownTask, UnknownUser, UnknownReferrer,
\* SelfReferral and ReferrerAlreadySet differ from each other and from the
\* answers for a failure of the store; a call stopped by a serialization
\* conflict is not answered like a failure of the store; a CompleteTask for a
\* pair whose row is already committed answers with a success other than the
\* award of the task's points.
C16_OutcomesDistinct ==
  [][/\ Cardinality({HttpError("unknown task", 400),
                     HttpError("user not found", 404),
                     HttpError("referrer not found", 400),
                     HttpError("cannot refer yourself", 400),
                     HttpError("referrer already set", 409),
                     HttpError("server error", 500),
                     HttpError("commit failed", 500)}) = 7
     /\ \A p \in Procs :
          (ConflictAt(p) /\ pc'[p] = "idle")
          => last'.resp \notin {HttpError("server error", 500),
                                HttpError("commit failed", 500)}
     /\ (/\ AnsweredOp("CompleteTask")
         /\ Completed(db.user_tasks, last'.req.id, last'.req.task)
         /\ ~Transient(last'.resp))
        => (/\ last'.resp.code = 200
            /\ last'.resp # JsonAwarded(tasks[last'.req.task]))]_vars

\* ------------------------------------------------------------------- C17
\* C17: in a leaderboard result the entries are ordered by points from high
\* to low with ties broken by the smaller id first: of two entries the one
\* with the smaller rank has at least the points of the other, and with equal
\* points the smaller id; no two entries share a rank or an id, so the order
\* is total.
C17_LeaderboardOrdered ==
  leaderboard.code = 200 =>
    \A i, j \in 1..Len(leaderboard.items) :
      LET a == leaderboard.items[i]
          b == leaderboard.items[j]
      IN  /\ i # j => a.rank # b.rank /\ a.id # b.id
          /\ a.rank < b.rank =>
               /\ a.points >= b.points
               /\ a.points = b.points => a.id < b.id

\* a result with a tie above a smaller balance
C17_Witness ==
  /\ leaderboard.code = 200
  /\ Len(leaderboard.items) = 3
  /\ leaderboard.items[1].points = leaderboard.items[2].points
  /\ leaderboard.items[2].points > leaderboard.items[3].points

\* ------------------------------------------------------------------- C18
\* the limit a query asks for, written out for each value of the parameter
C18_LimitOf(v) ==
  CASE v = <<"1">> -> 1
    [] v = <<"2">> -> 2
    [] v = <<"3">> -> 3
    [] v = <<"+", "2">> -> 2
    [] v = <<"1", "0", "0">> -> 100
    [] OTHER -> 10

\* account u stands before account w in the order (points desc, id asc)
C18_Precedes(u, w) ==
  \/ db.users[u].points > db.users[w].points
  \/ db.users[u].points = db.users[w].points /\ u < w

RECURSIVE C19_TaskPointsOf(_, _)
C19_TaskPointsOf(rows, u) ==
  IF rows = <<>> THEN 0
  ELSE (IF Head(rows)[1] = u THEN tasks[Head(rows)[2]] ELSE 0)
         + C19_TaskPointsOf(Tail(rows), u)

\* C19: in every committed state each account's points equal its initial
\* points (zero) plus the task points over its completion rows, plus the
\* referred bonus if its referrer is set, plus the referrer bonus for every
\* referral row that names it as the referrer.
C19_LedgerConservation ==
  \A u \in Accounts :
    db.users[u].points =
        C19_TaskPointsOf(db.user_tasks, u)
      + (IF db.users[u].referrer_id # NULL THEN RefBonusToReferred ELSE 0)
      + RefBonusToReferrer
          * Cardinality({i \in 1..Len(db.referrals) : db.referrals[i].referrer_id = u})

\* ------------------------------------------------------------------- C20
\* C20: success is reported only after commit.  A step that answers ok is the
\* commit of the answered call, and after it the call's row and the increments
\* its answer reports are stored; a handler at its commit that answers
\* anything else answers an error and stores nothing; and what is stored
\* stays: completion and referral rows are never removed, a referrer once
\* set is kept, and no balance goes down.
C20_SuccessOnlyAfterCommit ==
  [][/\ (Answered /\ last'.resp.status = "ok")
        => LET u == last'.req.id
           IN /\ last'.resp.code = 200
              /\ \E p \in Procs :
                   /\ req[p] = last'.req
                   /\ StepAt(p, "ct_commit") \/ StepAt(p, "sr_commit")
              /\ last'.req.op = "CompleteTask"
                 => /\ Completed(db'.user_tasks, u, last'.req.task)
                    /\ db'.users[u].points = db.users[u].points + last'.resp.awarded
              /\ last'.req.op = "SetReferrer"
                 => LET r == last'.req.referrer_id
                    IN /\ db'.users[u].referrer_id = r
                       /\ db'.users[u].points
                            = db.users[u].points + last'.resp.bonus_referred
                       /\ db'.users[r].points
                            = db.users[r].points + last'.resp.bonus_to_referrer
                       /\ \E i \in 1..Len(db'.referrals) :
                            /\ db'.referrals[i].referrer_id = r
                            /\ db'.referrals[i].referred_id = u
     /\ \A p \in Procs :
          (/\ StepAt(p, "ct_commit") \/ StepAt(p, "sr_commit")
           /\ db' = db)
          => /\ Answered
             /\ last'.req = req[p]
             /\ last'.resp.code >= 400
             /\ last'.resp.status # "ok"
     /\ \A i \in 1..Len(db.user_tasks) :
          i <= Len(db'.user_tasks) /\ db'.user_tasks[i] = db.user_tasks[i]
     /\ \A i \in 1..Len(db.referrals) :
          i <= Len(db'.referrals) /\ db'.referrals[i] = db.referrals[i]
     /\ \A u \in Accounts :
          /\ db'.users[u].points >= db.users[u].points
          /\ db.users[u].referrer_id # NULL
             => db'.users[u].referrer_id = db.users[u].referrer_id]_vars

\* C20 witness: CompleteTask(3, "daily_checkin") reported its award, then the
\* commit of SetReferrer(1, 2) failed: the award is still stored, nothing of
\* the failed call is
C20_Witness ==
  /\ last.seq = 2
  /\ last.req = ReferrerReq(1, 2)
  /\ last.resp = HttpError("commit failed", 500)
  /\ db.user_tasks = <<(<<3, "daily_checkin">>)>>
  /\ db.users[3].points = 5
  /\ db.users[1] = [points |-> 0, referrer_id |-> NULL]
  /\ db.users[2].points = 0
  /\ db.referrals = <<>>

====
